---- MODULE Spec2Model ----
(***************************************************************************)
(* TownNews collector and normaliser.                                      *)
(*                                                                         *)
(*   SpecFetch    nodriver_helper.py: fetch_json_from_urls run inside      *)
(*                `async with NodriverBrowser() as browser`                *)
(*   SpecCollect  collect_news.py: collect_news                            *)
(*   SpecNorm     normalize_news.py: normalize_townnews_file, called once  *)
(*                per raw file over a sequence of passes                   *)
(*                                                                         *)
(* Text (page content, URLs, domains, file names) is a sequence of         *)
(* one-character strings.  Python's None is the sentinel None.             *)
(***************************************************************************)
EXTENDS Integers, Sequences, FiniteSets, TLC

VARIABLES
    pc,               \* position of the running coroutine / function
    urls,             \* fetch_json_from_urls: the `urls` argument
    domains,          \* collect_news: lines read from the domains file
    debug_dir,        \* fetch_json_from_urls: TRUE iff debug_dir is not None
    i,                \* 1-based index of the target of the current iteration
    page,             \* "None" | "open" | "closed" (close was attempted)
    content,          \* local `content`: None or the page text
    data,             \* local `data`: parsed value of the current target
    exc,              \* exception being handled / propagated, "None" if none
    raising,          \* TRUE while an exception raised in the except block unwinds
    results,          \* fetch_json_from_urls: `results`
    summary,          \* collect_news: summary["results"]
    browser,          \* "None" | "live" | "stopped" (stop was executed)
    debug_dir_exists, \* the debug_pages directory exists on disk
    debug_files,      \* debug_pages: file name -> text written
    raw_files,        \* timestamp_dir: file name -> document | "partial"
    summary_written,  \* _collection_summary.json was written
    delays,           \* number of inter-request sleeps awaited so far
    unclosed,         \* tabs opened whose close was not yet attempted
    store,            \* normalized_news: <<domain, url_hash>> -> stored file
    filename,         \* normalize_townnews_file: basename of input_filepath
    scrape_timestamp, \* normalize_townnews_file: scrape_timestamp
    n_rows,           \* normalize_townnews_file: len(rows)
    pos,              \* 1-based index of the next row of `rows`
    article,          \* loop variable `article`: the row visited last
    stats,            \* normalize_townnews_file: stats
    passes,           \* number of normalize_townnews_file calls started
    called_normalize, \* the latest iteration called normalize_article
    new_count,        \* <<domain, url_hash>> -> presentations counted articles_new
    presented,        \* the article identities presented so far
    input,            \* argument of the function applied (pure-function runs)
    output,           \* its result
    batches,          \* process_all_raw_data: timestamp dirs -> their *.json files
    batch,            \* 1-based index of the timestamp directory being processed
    todo,             \* files of timestamp_dir.glob("*.json") not yet visited
    timestamp_stats,  \* process_all_raw_data: timestamp_stats
    norm_summaries,   \* timestamp dir -> statistics of its _normalization_summary.json
    inst,             \* concurrent instances: id -> locals of its normalize_townnews_file
    writes            \* <<domain, url_hash>> -> times open(output_filepath, 'w') succeeded

fvars == <<pc, urls, domains, debug_dir, i, page, content, data, exc, raising,
           results, summary, browser, debug_dir_exists, debug_files, raw_files,
           summary_written, delays, unclosed>>
nvars == <<store, filename, scrape_timestamp, n_rows, pos, article, stats,
           passes, called_normalize, new_count, presented>>
vars == <<pc, urls, domains, debug_dir, i, page, content, data, exc, raising,
          results, summary, browser, debug_dir_exists, debug_files, raw_files,
          summary_written, delays, unclosed, store, filename, scrape_timestamp,
          n_rows, pos, article, stats, passes, called_normalize, new_count,
          presented, input, output, batches, batch, todo, timestamp_stats,
          norm_summaries, inst, writes>>
xvars == <<input, output, batches, batch, todo, timestamp_stats, norm_summaries,
           inst, writes>>

----------------------------------------------------------------------------
(* Bounds *)

MaxTargets == 2
MaxRows == 2
MaxPasses == 2
MaxLen == 4
MaxKeywords == 3
MaxSections == 2
MaxAuthors == 2
MaxBatches == 2
MaxBatchRows == 1
MaxInstanceRows == 2

----------------------------------------------------------------------------
(* Text helpers *)

None == <<"<None>">>

\* Python truthiness of an Optional[str]
Truthy(s) == s # None /\ s # <<>>

\* str.replace(old, new) for a one-character `old`
Replace(s, old, new) == [k \in 1..Len(s) |-> IF s[k] = old THEN new ELSE s[k]]

\* str.find(ch): 0-based index of the first occurrence, -1 if none
Find(s, ch) ==
    IF \E k \in 1..Len(s) : s[k] = ch
    THEN (CHOOSE k \in 1..Len(s) : s[k] = ch /\ \A j \in 1..(k-1) : s[j] # ch) - 1
    ELSE -1

\* Mutant of RFind: the first occurrence is taken instead of the last
RFind_First(s, ch) ==
    IF \E k \in 1..Len(s) : s[k] = ch
    THEN (CHOOSE k \in 1..Len(s) : s[k] = ch /\ \A j \in 1..(k-1) : s[j] # ch) - 1
    ELSE -1

\* str.rfind(ch): 0-based index of the last occurrence, -1 if none
RFind(s, ch) ==
    IF \E k \in 1..Len(s) : s[k] = ch
    THEN (CHOOSE k \in 1..Len(s) : s[k] = ch /\ \A j \in (k+1)..Len(s) : s[j] # ch) - 1
    ELSE -1

\* content[start:end] for 0 <= start, 0 <= end <= len
Slice(s, start, end) == SubSeq(s, start + 1, end)

\* Targets: domain names / URLs
Targets == { <<"a", ".", "c">>, <<"a", "_", "c">>, <<"b", ".", "c">> }

TargetLists == UNION { [1..n -> Targets] : n \in 0..MaxTargets }

\* Page texts the browser may return
PageContents ==
    { <<>>,                          \* empty page
      <<"{", "}">>,                  \* a JSON object
      <<"1">>,                       \* valid JSON, not an object
      <<"h", "{", "}", "h">>,        \* JSON object embedded in HTML
      <<"h">>,                       \* no braces
      <<"}", "{">> }                 \* braces that enclose nothing

----------------------------------------------------------------------------
(* nodriver_helper.py: pure functions *)

\* json.loads over the alphabet { "{", "}", "[", "]", "1", "h" }: "{}" is the
\* only object, a non-empty run of digits is a number, "[]" and "[" value "]"
\* are arrays, anything else is malformed.
RECURSIVE JsonLoads(_)
JsonLoads(s) ==
    IF s = <<"{", "}">> THEN "dict"
    ELSE IF Len(s) > 0 /\ \A k \in 1..Len(s) : s[k] = "1" THEN "int"
    ELSE IF /\ Len(s) >= 2 /\ s[1] = "[" /\ s[Len(s)] = "]"
            /\ \/ Len(s) = 2
               \/ JsonLoads(SubSeq(s, 2, Len(s) - 1)) # "JSONDecodeError"
         THEN "list"
    ELSE "JSONDecodeError"

IsError(v) == v \in {"JSONDecodeError", "ValueError"}

\* what the unguarded debug write in an except block can raise
DebugErrors == {"debug_makedirs", "debug_write"}

extract_json_from_content(c) ==
    IF ~IsError(JsonLoads(c)) THEN JsonLoads(c)
    ELSE LET start_idx == Find(c, "{")
             end_idx == RFind(c, "}") + 1
         IN IF start_idx # -1 /\ end_idx # 0
            THEN JsonLoads(Slice(c, start_idx, end_idx))
            ELSE "ValueError"

sanitize_filename(text) ==
    Replace(Replace(Replace(text, ".", "_"), "/", "_"), ":", "_")

----------------------------------------------------------------------------
(* Initial values shared by the specifications *)

FetchIdle ==
    /\ pc = "idle" /\ urls = <<>> /\ domains = <<>> /\ debug_dir = FALSE
    /\ i = 0 /\ page = "None" /\ content = None /\ data = "None"
    /\ exc = "None" /\ raising = FALSE /\ results = <<>> /\ summary = <<>>
    /\ browser = "None" /\ debug_dir_exists = FALSE /\ debug_files = <<>>
    /\ raw_files = <<>> /\ summary_written = FALSE /\ delays = 0 /\ unclosed = 0

\* A row that is not a mapping (article.get raises AttributeError)
NotADict == [kind |-> "str", type |-> "None", url |-> None, starttime |-> "absent"]

\* stats = {"articles_new": 0, ...}
ZeroStats == [articles_new |-> 0, articles_skipped |-> 0,
              articles_skipped_image_type |-> 0, errors |-> 0]

NormIdle ==
    /\ store = <<>> /\ filename = <<>> /\ scrape_timestamp = 0 /\ n_rows = 0
    /\ pos = 0 /\ passes = 0 /\ article = NotADict /\ stats = ZeroStats
    /\ called_normalize = FALSE /\ new_count = <<>> /\ presented = {}

\* timestamp_stats = {"files_processed": 0, ...}
ZeroBatchStats == [files_processed |-> 0, articles_new |-> 0,
                   articles_skipped |-> 0, articles_skipped_image_type |-> 0,
                   errors |-> 0]

XIdle ==
    /\ input = <<>> /\ output = <<>> /\ batches = <<>> /\ batch = 0
    /\ todo = {} /\ timestamp_stats = ZeroBatchStats /\ norm_summaries = <<>>
    /\ inst = <<>> /\ writes = <<>>

\* everything but pc, input and output at rest
Quiet ==
    /\ urls = <<>> /\ domains = <<>> /\ debug_dir = FALSE
    /\ i = 0 /\ page = "None" /\ content = None /\ data = "None"
    /\ exc = "None" /\ raising = FALSE /\ results = <<>> /\ summary = <<>>
    /\ browser = "None" /\ debug_dir_exists = FALSE /\ debug_files = <<>>
    /\ raw_files = <<>> /\ summary_written = FALSE /\ delays = 0 /\ unclosed = 0
    /\ NormIdle
    /\ batches = <<>> /\ batch = 0 /\ todo = {}
    /\ timestamp_stats = ZeroBatchStats /\ norm_summaries = <<>>
    /\ inst = <<>> /\ writes = <<>>

\* what a pure-function run leaves alone
Rest == <<urls, domains, debug_dir, i, page, content, data, exc, raising,
          results, summary, browser, debug_dir_exists, debug_files, raw_files,
          summary_written, delays, unclosed, batches, batch, todo,
          timestamp_stats, norm_summaries, inst, writes>>

\* f with key k bound to v (a file created or overwritten)
Put(f, k, v) == [x \in DOMAIN f \cup {k} |-> IF x = k THEN v ELSE f[x]]

----------------------------------------------------------------------------
(* nodriver_helper.py: NodriverBrowser and fetch_json_from_urls *)

FetchInit ==
    /\ pc = "enter"
    /\ urls \in TargetLists
    /\ domains = <<>>
    /\ debug_dir \in BOOLEAN
    /\ debug_dir_exists \in BOOLEAN
    /\ i = 0 /\ page = "None" /\ content = None /\ data = "None"
    /\ exc = "None" /\ raising = FALSE /\ results = <<>> /\ summary = <<>>
    /\ browser = "None" /\ debug_files = <<>> /\ raw_files = <<>>
    /\ summary_written = FALSE /\ delays = 0 /\ unclosed = 0
    /\ NormIdle
    /\ XIdle

\* NodriverBrowser.__aenter__: uc.start()
F_Enter ==
    /\ pc = "enter"
    /\ \/ /\ browser' = "live" /\ i' = 1 /\ pc' = "for" /\ exc' = exc
       \/ /\ browser' = browser /\ i' = i /\ pc' = "raised" /\ exc' = "start"
    /\ UNCHANGED <<urls, domains, debug_dir, page, content, data, raising,
                   results, summary, debug_dir_exists, debug_files, raw_files,
                   summary_written, delays, unclosed>>
    /\ UNCHANGED nvars /\ UNCHANGED xvars

\* for i, url in enumerate(urls): page = None; content = None
F_For ==
    /\ pc = "for"
    /\ IF i <= Len(urls)
       THEN /\ page' = "None" /\ content' = None /\ pc' = "get"
       ELSE /\ page' = page /\ content' = content /\ pc' = "return"
    /\ UNCHANGED <<urls, domains, debug_dir, i, data, exc, raising, results,
                   summary, browser, debug_dir_exists, debug_files, raw_files,
                   summary_written, delays, unclosed>>
    /\ UNCHANGED nvars /\ UNCHANGED xvars

\* page = await browser.get(url, new_tab=True)
F_Get ==
    /\ pc = "get"
    /\ \/ /\ page' = "open" /\ unclosed' = unclosed + 1
          /\ pc' = "sleep" /\ exc' = exc
       \/ /\ page' = page /\ unclosed' = unclosed
          /\ pc' = "except" /\ exc' = "navigation"
    /\ UNCHANGED <<urls, domains, debug_dir, i, content, data, raising, results,
                   summary, browser, debug_dir_exists, debug_files, raw_files,
                   summary_written, delays>>
    /\ UNCHANGED nvars /\ UNCHANGED xvars

\* await page.sleep(wait_time)
F_Sleep ==
    /\ pc = "sleep"
    /\ \/ pc' = "select" /\ exc' = exc
       \/ pc' = "except" /\ exc' = "settle"
    /\ UNCHANGED <<urls, domains, debug_dir, i, page, content, data, raising,
                   results, summary, browser, debug_dir_exists, debug_files,
                   raw_files, summary_written, delays, unclosed>>
    /\ UNCHANGED nvars /\ UNCHANGED xvars

\* try: await page.select(...) except Exception: pass
F_Select ==
    /\ pc = "select"
    /\ pc' = "get_content"
    /\ UNCHANGED <<urls, domains, debug_dir, i, page, content, data, exc,
                   raising, results, summary, browser, debug_dir_exists,
                   debug_files, raw_files, summary_written, delays, unclosed>>
    /\ UNCHANGED nvars /\ UNCHANGED xvars

\* content = await page.get_content()
F_GetContent ==
    /\ pc = "get_content"
    /\ \/ \E c \in PageContents :
             content' = c /\ pc' = "extract" /\ exc' = exc
       \/ content' = content /\ pc' = "except" /\ exc' = "read"
    /\ UNCHANGED <<urls, domains, debug_dir, i, page, data, raising, results,
                   summary, browser, debug_dir_exists, debug_files, raw_files,
                   summary_written, delays, unclosed>>
    /\ UNCHANGED nvars /\ UNCHANGED xvars

\* data = extract_json_from_content(content); results.append({... "success" ...})
F_Extract ==
    /\ pc = "extract"
    /\ LET d == extract_json_from_content(content)
       IN IF IsError(d)
          THEN /\ exc' = d /\ pc' = "except"
               /\ UNCHANGED <<data, results>>
          ELSE /\ data' = d
               /\ results' = Append(results,
                      [url |-> urls[i], status |-> "success", data |-> d,
                       error |-> "None", content |-> None])
               /\ pc' = "close" /\ exc' = exc
    /\ UNCHANGED <<urls, domains, debug_dir, i, page, content, raising, summary,
                   browser, debug_dir_exists, debug_files, raw_files,
                   summary_written, delays, unclosed>>
    /\ UNCHANGED nvars /\ UNCHANGED xvars

\* results.append({... "status": "error" ...}) at the end of the except block
F_ErrorOutcome ==
    [url |-> urls[i], status |-> "error", data |-> "None", error |-> exc,
     content |-> IF Truthy(content) THEN content ELSE None]

\* except Exception as e: save debug content, then record the error outcome.
\* os.makedirs and open/write are not guarded: when either raises, the
\* exception leaves the except block before results.append.
F_Except ==
    /\ pc = "except"
    /\ IF debug_dir /\ Truthy(content)
       THEN \/ /\ debug_dir_exists' = TRUE
               /\ debug_files' = Put(debug_files, sanitize_filename(urls[i]), content)
               /\ results' = Append(results, F_ErrorOutcome)
               /\ exc' = "None" /\ raising' = raising
            \/ /\ ~debug_dir_exists
               /\ exc' = "debug_makedirs" /\ raising' = TRUE
               /\ UNCHANGED <<debug_dir_exists, debug_files, results>>
            \/ /\ debug_dir_exists' = TRUE
               /\ exc' = "debug_write" /\ raising' = TRUE
               /\ UNCHANGED <<debug_files, results>>
       ELSE /\ results' = Append(results, F_ErrorOutcome)
            /\ exc' = "None" /\ raising' = raising
            /\ UNCHANGED <<debug_dir_exists, debug_files>>
    /\ pc' = "close"
    /\ UNCHANGED <<urls, domains, debug_dir, i, page, content, data, summary,
                   browser, raw_files, summary_written, delays, unclosed>>
    /\ UNCHANGED nvars /\ UNCHANGED xvars

\* if i < len(urls) - 1 (0-based i): the delay is applied
F_DelayDue == i < Len(urls)

\* the close placed at the end of the try body: reached only by an
\* iteration that recorded a success
F_Close_SkipOnError ==
    /\ pc = "close"
    /\ IF page # "None" /\ Len(results) = i /\ results[i].status = "success"
       THEN page' = "closed" /\ unclosed' = unclosed - 1
       ELSE page' = page /\ unclosed' = unclosed
    /\ pc' = IF F_DelayDue THEN "delay" ELSE "next"
    /\ UNCHANGED <<urls, domains, debug_dir, i, content, data, exc, raising,
                   results, summary, browser, debug_dir_exists, debug_files,
                   raw_files, summary_written, delays>>
    /\ UNCHANGED nvars /\ UNCHANGED xvars

\* finally: if page: try: await page.close() except Exception: pass
F_Close ==
    /\ pc = "close"
    /\ IF page # "None"
       THEN page' = "closed" /\ unclosed' = unclosed - 1
       ELSE page' = page /\ unclosed' = unclosed
    /\ pc' = IF F_DelayDue THEN "delay" ELSE "next"
    /\ UNCHANGED <<urls, domains, debug_dir, i, content, data, exc, raising,
                   results, summary, browser, debug_dir_exists, debug_files,
                   raw_files, summary_written, delays>>
    /\ UNCHANGED nvars /\ UNCHANGED xvars

\* finally: await asyncio.sleep(delay)
F_Delay ==
    /\ pc = "delay"
    /\ delays' = delays + 1
    /\ pc' = "next"
    /\ UNCHANGED <<urls, domains, debug_dir, i, page, content, data, exc,
                   raising, results, summary, browser, debug_dir_exists,
                   debug_files, raw_files, summary_written, unclosed>>
    /\ UNCHANGED nvars /\ UNCHANGED xvars

\* end of the finally block: re-raise what the except block raised, or go on
F_Next ==
    /\ pc = "next"
    /\ IF raising
       THEN pc' = "exit" /\ i' = i
       ELSE pc' = "for" /\ i' = i + 1
    /\ UNCHANGED <<urls, domains, debug_dir, page, content, data, exc, raising,
                   results, summary, browser, debug_dir_exists, debug_files,
                   raw_files, summary_written, delays, unclosed>>
    /\ UNCHANGED nvars /\ UNCHANGED xvars

\* return results
F_Return ==
    /\ pc = "return"
    /\ pc' = "exit"
    /\ UNCHANGED <<urls, domains, debug_dir, i, page, content, data, exc,
                   raising, results, summary, browser, debug_dir_exists,
                   debug_files, raw_files, summary_written, delays, unclosed>>
    /\ UNCHANGED nvars /\ UNCHANGED xvars

\* NodriverBrowser.__aexit__: stop the browser, swallow its error, return False
F_Exit ==
    /\ pc = "exit"
    /\ browser' = IF browser # "None" THEN "stopped" ELSE browser
    /\ pc' = IF raising THEN "raised" ELSE "done"
    /\ UNCHANGED <<urls, domains, debug_dir, i, page, content, data, exc,
                   raising, results, summary, debug_dir_exists, debug_files,
                   raw_files, summary_written, delays, unclosed>>
    /\ UNCHANGED nvars /\ UNCHANGED xvars

FetchNext ==
    \/ F_Enter \/ F_For \/ F_Get \/ F_Sleep \/ F_Select \/ F_GetContent
    \/ F_Extract \/ F_Except \/ F_Close \/ F_Delay \/ F_Next \/ F_Return
    \/ F_Exit

SpecFetch == FetchInit /\ [][FetchNext]_vars

----------------------------------------------------------------------------
(* nodriver_helper.py: extract_json_from_content applied to any page text *)

Alphabet == {"{", "}", "[", "]", "1", "h"}

Texts == UNION { [1..n -> Alphabet] : n \in 0..MaxLen }

ExtractInit ==
    /\ pc = "call"
    /\ input \in Texts
    /\ output = <<>>
    /\ Quiet

\* data = extract_json_from_content(content)
E_Extract ==
    /\ pc = "call"
    /\ output' = extract_json_from_content(input)
    /\ pc' = "extracted"
    /\ UNCHANGED input /\ UNCHANGED Rest /\ UNCHANGED nvars

ExtractNext == E_Extract

SpecExtract == ExtractInit /\ [][ExtractNext]_vars

----------------------------------------------------------------------------
(* collect_news.py: collect_news *)

\* state of fetch_json_from_urls that collect_news does not have
U == <<urls, debug_dir, results>>

CollectInit ==
    /\ pc = "makedirs"
    /\ domains \in TargetLists
    /\ urls = <<>>
    /\ debug_dir = TRUE
    /\ debug_dir_exists \in BOOLEAN
    /\ i = 0 /\ page = "None" /\ content = None /\ data = "None"
    /\ exc = "None" /\ raising = FALSE /\ results = <<>> /\ summary = <<>>
    /\ browser = "None" /\ debug_files = <<>> /\ raw_files = <<>>
    /\ summary_written = FALSE /\ delays = 0 /\ unclosed = 0
    /\ NormIdle
    /\ XIdle

\* os.makedirs of raw_news_data/<date>/<timestamp>; the last one has no
\* exist_ok and raises when the directory is already there
C_MakeDirs ==
    /\ pc = "makedirs"
    /\ \/ pc' = "read_domains" /\ exc' = exc
       \/ pc' = "raised" /\ exc' = "makedirs"
    /\ UNCHANGED <<domains, i, page, content, data, raising, summary, browser,
                   debug_dir_exists, debug_files, raw_files, summary_written,
                   delays, unclosed>>
    /\ UNCHANGED U /\ UNCHANGED nvars /\ UNCHANGED xvars

\* open(domains_file): FileNotFoundError prints and returns from collect_news
C_ReadDomains ==
    /\ pc = "read_domains"
    /\ \/ pc' = "start"
       \/ pc' = "done"
    /\ UNCHANGED <<domains, i, page, content, data, exc, raising, summary,
                   browser, debug_dir_exists, debug_files, raw_files,
                   summary_written, delays, unclosed>>
    /\ UNCHANGED U /\ UNCHANGED nvars /\ UNCHANGED xvars

\* browser = await uc.start()
C_Start ==
    /\ pc = "start"
    /\ \/ /\ browser' = "live" /\ i' = 1 /\ pc' = "for" /\ exc' = exc
       \/ /\ browser' = browser /\ i' = i /\ pc' = "raised" /\ exc' = "start"
    /\ UNCHANGED <<domains, page, content, data, raising, summary,
                   debug_dir_exists, debug_files, raw_files, summary_written,
                   delays, unclosed>>
    /\ UNCHANGED U /\ UNCHANGED nvars /\ UNCHANGED xvars

\* for domain in domains: page = None   (content is NOT reset)
C_For ==
    /\ pc = "for"
    /\ IF i <= Len(domains)
       THEN page' = "None" /\ pc' = "get"
       ELSE page' = page /\ pc' = "stop"
    /\ UNCHANGED <<domains, i, content, data, exc, raising, summary, browser,
                   debug_dir_exists, debug_files, raw_files, summary_written,
                   delays, unclosed>>
    /\ UNCHANGED U /\ UNCHANGED nvars /\ UNCHANGED xvars

\* page = await browser.get(url, new_tab=True)
C_Get ==
    /\ pc = "get"
    /\ \/ /\ page' = "open" /\ unclosed' = unclosed + 1
          /\ pc' = "sleep" /\ exc' = exc
       \/ /\ page' = page /\ unclosed' = unclosed
          /\ pc' = "except" /\ exc' = "navigation"
    /\ UNCHANGED <<domains, i, content, data, raising, summary, browser,
                   debug_dir_exists, debug_files, raw_files, summary_written,
                   delays>>
    /\ UNCHANGED U /\ UNCHANGED nvars /\ UNCHANGED xvars

\* await page.sleep(3)
C_Sleep ==
    /\ pc = "sleep"
    /\ \/ pc' = "select" /\ exc' = exc
       \/ pc' = "except" /\ exc' = "settle"
    /\ UNCHANGED <<domains, i, page, content, data, raising, summary, browser,
                   debug_dir_exists, debug_files, raw_files, summary_written,
                   delays, unclosed>>
    /\ UNCHANGED U /\ UNCHANGED nvars /\ UNCHANGED xvars

\* try: await page.select('body', timeout=10) except Exception: pass
C_Select ==
    /\ pc = "select"
    /\ pc' = "get_content"
    /\ UNCHANGED <<domains, i, page, content, data, exc, raising, summary,
                   browser, debug_dir_exists, debug_files, raw_files,
                   summary_written, delays, unclosed>>
    /\ UNCHANGED U /\ UNCHANGED nvars /\ UNCHANGED xvars

\* content = await page.get_content()
C_GetContent ==
    /\ pc = "get_content"
    /\ \/ \E c \in PageContents :
             content' = c /\ pc' = "parse" /\ exc' = exc
       \/ content' = content /\ pc' = "except" /\ exc' = "read"
    /\ UNCHANGED <<domains, i, page, data, raising, summary, browser,
                   debug_dir_exists, debug_files, raw_files, summary_written,
                   delays, unclosed>>
    /\ UNCHANGED U /\ UNCHANGED nvars /\ UNCHANGED xvars

\* data = None; json.loads(content), else the first "{" .. last "}" span
C_Parse ==
    /\ pc = "parse"
    /\ LET d == extract_json_from_content(content)
       IN IF IsError(d)
          THEN data' = "None" /\ exc' = d /\ pc' = "except"
          ELSE data' = d /\ exc' = exc /\ pc' = "write_raw"
    /\ UNCHANGED <<domains, i, page, content, raising, summary, browser,
                   debug_dir_exists, debug_files, raw_files, summary_written,
                   delays, unclosed>>
    /\ UNCHANGED U /\ UNCHANGED nvars /\ UNCHANGED xvars

\* filename = domain.replace(".", "_") + ".json"
C_Filename(domain) == Append(Replace(domain, ".", "_"), ".json")

\* with open(filepath, 'w') as f: json.dump(data, f, indent=2)
C_WriteRaw ==
    /\ pc = "write_raw"
    /\ \/ /\ raw_files' = Put(raw_files, C_Filename(domains[i]), data)
          /\ pc' = "record" /\ exc' = exc
       \/ /\ raw_files' = raw_files
          /\ pc' = "except" /\ exc' = "open"
       \/ /\ raw_files' = Put(raw_files, C_Filename(domains[i]), "partial")
          /\ pc' = "except" /\ exc' = "write"
    /\ UNCHANGED <<domains, i, page, content, data, raising, summary, browser,
                   debug_dir_exists, debug_files, summary_written, delays,
                   unclosed>>
    /\ UNCHANGED U /\ UNCHANGED nvars /\ UNCHANGED xvars

\* summary["results"].append({... "success", data.get("total", 0) ...});
\* data.get raises AttributeError when data is not a dict
C_Record ==
    /\ pc = "record"
    /\ IF data = "dict"
       THEN /\ summary' = Append(summary,
                   [domain |-> domains[i], status |-> "success",
                    error_message |-> "None",
                    file_path |-> C_Filename(domains[i])])
            /\ pc' = "close" /\ exc' = exc
       ELSE /\ summary' = summary
            /\ pc' = "except" /\ exc' = "AttributeError"
    /\ UNCHANGED <<domains, i, page, content, data, raising, browser,
                   debug_dir_exists, debug_files, raw_files, summary_written,
                   delays, unclosed>>
    /\ UNCHANGED U /\ UNCHANGED nvars /\ UNCHANGED xvars

\* summary["results"].append({... "status": "error" ...})
C_ErrorEntry ==
    [domain |-> domains[i], status |-> "error", error_message |-> exc,
     file_path |-> None]

\* except Exception as e: when `content` is bound and non-empty, write it to
\* debug_pages/<safe_domain>.html (unguarded), then record the error entry
C_Except ==
    /\ pc = "except"
    /\ IF Truthy(content)
       THEN \/ /\ debug_dir_exists' = TRUE
               /\ debug_files' = Put(debug_files, Replace(domains[i], ".", "_"), content)
               /\ summary' = Append(summary, C_ErrorEntry)
               /\ exc' = "None" /\ raising' = raising
            \/ /\ ~debug_dir_exists
               /\ exc' = "debug_makedirs" /\ raising' = TRUE
               /\ UNCHANGED <<debug_dir_exists, debug_files, summary>>
            \/ /\ debug_dir_exists' = TRUE
               /\ exc' = "debug_write" /\ raising' = TRUE
               /\ UNCHANGED <<debug_files, summary>>
       ELSE /\ summary' = Append(summary, C_ErrorEntry)
            /\ exc' = "None" /\ raising' = raising
            /\ UNCHANGED <<debug_dir_exists, debug_files>>
    /\ pc' = "close"
    /\ UNCHANGED <<domains, i, page, content, data, browser, raw_files,
                   summary_written, delays, unclosed>>
    /\ UNCHANGED U /\ UNCHANGED nvars /\ UNCHANGED xvars

\* finally: if page: try: await page.close() except Exception: pass
C_Close ==
    /\ pc = "close"
    /\ IF page # "None"
       THEN page' = "closed" /\ unclosed' = unclosed - 1
       ELSE page' = page /\ unclosed' = unclosed
    /\ pc' = "delay"
    /\ UNCHANGED <<domains, i, content, data, exc, raising, summary, browser,
                   debug_dir_exists, debug_files, raw_files, summary_written,
                   delays>>
    /\ UNCHANGED U /\ UNCHANGED nvars /\ UNCHANGED xvars

\* finally: delay = random.uniform(3, 15); await asyncio.sleep(delay);
\* then the exception raised in the except block, if any, leaves collect_news
C_Delay ==
    /\ pc = "delay"
    /\ delays' = delays + 1
    /\ IF raising
       THEN pc' = "raised" /\ i' = i
       ELSE pc' = "for" /\ i' = i + 1
    /\ UNCHANGED <<domains, page, content, data, exc, raising, summary, browser,
                   debug_dir_exists, debug_files, raw_files, summary_written,
                   unclosed>>
    /\ UNCHANGED U /\ UNCHANGED nvars /\ UNCHANGED xvars

\* if browser: try: await browser.stop() except Exception: pass
C_Stop ==
    /\ pc = "stop"
    /\ browser' = "stopped"
    /\ pc' = "write_summary"
    /\ UNCHANGED <<domains, i, page, content, data, exc, raising, summary,
                   debug_dir_exists, debug_files, raw_files, summary_written,
                   delays, unclosed>>
    /\ UNCHANGED U /\ UNCHANGED nvars /\ UNCHANGED xvars

\* with open(summary_filepath, 'w') as f: json.dump(summary, f, indent=2)
C_WriteSummary ==
    /\ pc = "write_summary"
    /\ \/ summary_written' = TRUE /\ pc' = "done" /\ exc' = exc
       \/ summary_written' = FALSE /\ pc' = "raised" /\ exc' = "summary_write"
    /\ UNCHANGED <<domains, i, page, content, data, raising, summary, browser,
                   debug_dir_exists, debug_files, raw_files, delays, unclosed>>
    /\ UNCHANGED U /\ UNCHANGED nvars /\ UNCHANGED xvars

CollectNext ==
    \/ C_MakeDirs \/ C_ReadDomains \/ C_Start \/ C_For \/ C_Get \/ C_Sleep
    \/ C_Select \/ C_GetContent \/ C_Parse \/ C_WriteRaw \/ C_Record
    \/ C_Except \/ C_Close \/ C_Delay \/ C_Stop \/ C_WriteSummary

SpecCollect == CollectInit /\ [][CollectNext]_vars

----------------------------------------------------------------------------
(* normalize_news.py *)

\* Article URLs: absent (None), empty, and two distinct URLs
Urls == { None, <<>>, <<"u", "1">>, <<"u", "2">> }

\* Rows of a raw document: articles with any URL, articles whose
\* "starttime": null makes normalize_article raise (None has no .get), image
\* rows, and a row that is not a mapping (article.get raises).
RawRecords ==
    [kind : {"dict"}, type : {"article"}, url : Urls, starttime : {"absent"}]
    \cup [kind : {"dict"}, type : {"article"}, url : Urls \ {None, <<>>},
          starttime : {"null"}]
    \cup [kind : {"dict"}, type : {"image"}, url : Urls \ {<<>>},
          starttime : {"absent"}]
    \cup {NotADict}

\* Raw files a batch directory can hold: the names collect_news writes
RawFileNames == { C_Filename(d) : d \in Targets }

\* scrape timestamps (the 10-digit directory names of the batches)
Timestamps == {1, 2}

\* what open(output_filepath, 'w') + json.dump can do
WriteOutcomes == {"ok", "open_fails", "dump_fails"}

\* hashlib.md5(url.encode('utf-8')).hexdigest(): one digest per URL
Md5(url) == <<"md5">> \o url

get_url_hash(url) == IF ~Truthy(url) THEN None ELSE Md5(url)

\* domain = filename.replace(".json", "").replace("_", ".")
FileDomain(name) ==
    Replace(SelectSeq(name, LAMBDA ch : ch # ".json"), "_", ".")

\* output_filepath = os.path.join(domain_dir, f"{url_hash}.json")
OutputPath(domain, url_hash) == <<domain, url_hash>>

\* Mutant of FileExists: the existence check never finds the file
FileExists_Never(st, path) == FALSE

\* os.path.exists(output_filepath)
FileExists(st, path) == path \in DOMAIN st

\* normalize_article raises on "starttime": null (starttime.get on None)
NormalizeRaises(a) == a.starttime = "null"

\* the fields of normalize_article's result that identify and date the record
normalize_article(a, source_domain, ts) ==
    [complete |-> TRUE, url |-> a.url, source_domain |-> source_domain,
     first_seen_timestamp_gmt |-> ts]

\* a file that open() created and json.dump did not finish
PartialFile ==
    [complete |-> FALSE, url |-> None, source_domain |-> None,
     first_seen_timestamp_gmt |-> 0]

\* Mutant of RowOutcome: the URL check comes before the image check
RowOutcome_UrlFirst(a, st, domain, w) ==
    IF a.kind # "dict" THEN "exception"
    ELSE IF get_url_hash(a.url) = None THEN "no_url"
    ELSE IF a.type = "image" THEN "image"
    ELSE IF FileExists(st, OutputPath(domain, get_url_hash(a.url))) THEN "exists"
    ELSE IF NormalizeRaises(a) THEN "exception"
    ELSE IF w = "open_fails" THEN "exception"
    ELSE IF w = "dump_fails" THEN "exception_partial"
    ELSE "new"

\* The branch one iteration of `for article in rows` takes, in code order
RowOutcome(a, st, domain, w) ==
    IF a.kind # "dict" THEN "exception"
    ELSE IF a.type = "image" THEN "image"
    ELSE IF get_url_hash(a.url) = None THEN "no_url"
    ELSE IF FileExists(st, OutputPath(domain, get_url_hash(a.url))) THEN "exists"
    ELSE IF NormalizeRaises(a) THEN "exception"
    ELSE IF w = "open_fails" THEN "exception"
    ELSE IF w = "dump_fails" THEN "exception_partial"
    ELSE "new"

\* Mutant of Count: a row without URL is dropped without being counted
Count_NoUrlUncounted(st, outcome) ==
    CASE outcome = "image" ->
           [st EXCEPT !.articles_skipped_image_type = @ + 1]
      [] outcome = "no_url" -> st
      [] outcome = "exists" -> [st EXCEPT !.articles_skipped = @ + 1]
      [] outcome = "new" -> [st EXCEPT !.articles_new = @ + 1]
      [] OTHER -> [st EXCEPT !.errors = @ + 1]

\* the counter the branch increments
Count(st, outcome) ==
    CASE outcome = "image" ->
           [st EXCEPT !.articles_skipped_image_type = @ + 1]
      [] outcome = "no_url" -> [st EXCEPT !.errors = @ + 1]
      [] outcome = "exists" -> [st EXCEPT !.articles_skipped = @ + 1]
      [] outcome = "new" -> [st EXCEPT !.articles_new = @ + 1]
      [] OTHER -> [st EXCEPT !.errors = @ + 1]

\* Mutant of StoreAfter: an existing record is rewritten by the current pass
StoreAfter_Refresh(st, path, outcome, rec) ==
    CASE outcome = "new" -> Put(st, path, rec)
      [] outcome = "exists" -> Put(st, path, rec)
      [] outcome = "exception_partial" -> Put(st, path, PartialFile)
      [] OTHER -> st

\* the files under output_dir after the iteration
StoreAfter(st, path, outcome, rec) ==
    CASE outcome = "new" -> Put(st, path, rec)
      [] outcome = "exception_partial" -> Put(st, path, PartialFile)
      [] OTHER -> st

\* The row presents an article identity: a non-image mapping with a URL
Presents(a) == a.kind = "dict" /\ a.type # "image" /\ get_url_hash(a.url) # None

\* normalize_article is reached only past the image, URL and existence checks
CallsNormalize(a, st, domain) ==
    /\ a.kind = "dict" /\ a.type # "image"
    /\ get_url_hash(a.url) # None
    /\ ~FileExists(st, OutputPath(domain, get_url_hash(a.url)))

NormInit ==
    /\ FetchIdle
    /\ NormIdle
    /\ XIdle

\* normalize_townnews_file(input_filepath, output_dir): json.load, the scrape
\* timestamp from the path, domain_dir, stats, rows = data.get("rows", [])
N_Open ==
    /\ pc = "idle"
    /\ passes < MaxPasses
    /\ passes' = passes + 1
    /\ \E f \in RawFileNames, ts \in Timestamps, n \in 0..MaxRows :
          /\ filename' = f /\ scrape_timestamp' = ts /\ n_rows' = n
    /\ pos' = 1
    /\ stats' = ZeroStats
    /\ pc' = "rows"
    /\ UNCHANGED <<store, article, called_normalize, new_count, presented>>
    /\ UNCHANGED xvars
    /\ UNCHANGED <<urls, domains, debug_dir, i, page, content, data, exc,
                   raising, results, summary, browser, debug_dir_exists,
                   debug_files, raw_files, summary_written, delays, unclosed>>

\* json.load / data.get / os.makedirs raises: the call ends with an exception
N_OpenFails ==
    /\ pc = "idle"
    /\ passes < MaxPasses
    /\ passes' = passes + 1
    /\ \E f \in RawFileNames : filename' = f
    /\ UNCHANGED <<store, scrape_timestamp, n_rows, pos, article, stats,
                   called_normalize, new_count, presented>>
    /\ UNCHANGED fvars /\ UNCHANGED xvars

\* one iteration of `for article in rows`
N_Row ==
    /\ pc = "rows"
    /\ pos <= n_rows
    /\ \E a \in RawRecords :
       \E w \in IF CallsNormalize(a, store, FileDomain(filename))
                    /\ ~NormalizeRaises(a)
                THEN WriteOutcomes ELSE {"ok"} :
          LET domain == FileDomain(filename)
              path == OutputPath(domain, get_url_hash(a.url))
              outcome == RowOutcome(a, store, domain, w)
          IN /\ article' = a
             /\ called_normalize' = CallsNormalize(a, store, domain)
             /\ stats' = Count(stats, outcome)
             /\ store' = StoreAfter(store, path, outcome,
                                    normalize_article(a, domain, scrape_timestamp))
             /\ new_count' =
                   IF outcome = "new"
                   THEN Put(new_count, path,
                            IF path \in DOMAIN new_count
                            THEN new_count[path] + 1 ELSE 1)
                   ELSE new_count
             /\ presented' =
                   IF Presents(a) THEN presented \cup {path} ELSE presented
    /\ pos' = pos + 1
    /\ UNCHANGED <<filename, scrape_timestamp, n_rows, passes>>
    /\ UNCHANGED fvars /\ UNCHANGED xvars

\* return stats
N_Return ==
    /\ pc = "rows"
    /\ pos > n_rows
    /\ pc' = "idle"
    /\ UNCHANGED <<urls, domains, debug_dir, i, page, content, data, exc,
                   raising, results, summary, browser, debug_dir_exists,
                   debug_files, raw_files, summary_written, delays, unclosed>>
    /\ UNCHANGED nvars /\ UNCHANGED xvars

NormNext == N_Open \/ N_OpenFails \/ N_Row \/ N_Return

SpecNorm == NormInit /\ [][NormNext]_vars

----------------------------------------------------------------------------
(* normalize_news.py: process_all_raw_data *)

\* what timestamp_dir.glob("*.json") can yield: the raw files collect_news
\* writes and its "_summary.json"
BatchFileNames == RawFileNames \cup { <<"_", "s", ".json">> }

\* the timestamp directories under raw_data_dir, each with its files
BatchLists == UNION { [1..m -> SUBSET BatchFileNames] : m \in 0..MaxBatches }

\* json_file.name.startswith("_")
IsSummaryFile(name) == name[1] = "_"

\* the state of the two fetchers, which the normalization pass never touches
FetchState == <<urls, domains, debug_dir, i, page, content, data, exc, raising,
                results, summary, browser, debug_dir_exists, debug_files,
                raw_files, summary_written, delays, unclosed>>

BatchInit ==
    /\ pc = "p_makedirs"
    /\ batches \in BatchLists
    /\ batch = 1 /\ todo = {}
    /\ timestamp_stats = ZeroBatchStats /\ norm_summaries = <<>>
    /\ inst = <<>> /\ writes = <<>>
    /\ input = <<>> /\ output = <<>>
    /\ urls = <<>> /\ domains = <<>> /\ debug_dir = FALSE
    /\ i = 0 /\ page = "None" /\ content = None /\ data = "None"
    /\ exc = "None" /\ raising = FALSE /\ results = <<>> /\ summary = <<>>
    /\ browser = "None" /\ debug_dir_exists = FALSE /\ debug_files = <<>>
    /\ raw_files = <<>> /\ summary_written = FALSE /\ delays = 0 /\ unclosed = 0
    /\ NormIdle

\* os.makedirs(output_dir, exist_ok=True); Path(raw_data_dir).iterdir()
P_MakeDirs ==
    /\ pc = "p_makedirs"
    /\ \/ pc' = "p_for_batch" /\ exc' = exc
       \/ pc' = "raised" /\ exc' = "makedirs"
    /\ UNCHANGED <<urls, domains, debug_dir, i, page, content, data, raising,
                   results, summary, browser, debug_dir_exists, debug_files,
                   raw_files, summary_written, delays, unclosed>>
    /\ UNCHANGED nvars /\ UNCHANGED xvars

\* for timestamp_dir in date_dir.iterdir(): timestamp_stats = {...all 0...}
P_ForBatch ==
    /\ pc = "p_for_batch"
    /\ batch <= Len(batches)
    /\ timestamp_stats' = ZeroBatchStats
    /\ todo' = batches[batch]
    /\ pc' = "p_for_file"
    /\ UNCHANGED <<inst, writes, input, output, batches, batch, norm_summaries>>
    /\ UNCHANGED FetchState /\ UNCHANGED nvars

\* the loops over the directories are exhausted: the totals are printed
P_Finish ==
    /\ pc = "p_for_batch"
    /\ batch > Len(batches)
    /\ pc' = "done"
    /\ UNCHANGED FetchState /\ UNCHANGED nvars /\ UNCHANGED xvars

\* if json_file.name.startswith("_"): continue
P_SkipSummaryFile ==
    /\ pc = "p_for_file"
    /\ \E f \in todo :
          /\ IsSummaryFile(f)
          /\ todo' = todo \ {f}
    /\ UNCHANGED <<inst, writes, input, output, batches, batch, timestamp_stats,
                   norm_summaries>>
    /\ UNCHANGED fvars /\ UNCHANGED nvars

\* file_stats = normalize_townnews_file(json_file, output_dir): the call
\* reaches its loop over the rows
P_CallFile ==
    /\ pc = "p_for_file"
    /\ \E f \in todo, n \in 0..MaxBatchRows :
          /\ ~IsSummaryFile(f)
          /\ todo' = todo \ {f}
          /\ filename' = f /\ scrape_timestamp' = batch /\ n_rows' = n
    /\ passes' = passes + 1
    /\ pos' = 1
    /\ stats' = ZeroStats
    /\ pc' = "rows"
    /\ UNCHANGED <<store, article, called_normalize, new_count, presented>>
    /\ UNCHANGED <<inst, writes, input, output, batches, batch, timestamp_stats,
                   norm_summaries>>
    /\ UNCHANGED FetchState

\* normalize_townnews_file raises before its loop (json.load, data.get);
\* except Exception: timestamp_stats["errors"] += 1
P_FileRaises ==
    /\ pc = "p_for_file"
    /\ \E f \in todo :
          /\ ~IsSummaryFile(f)
          /\ todo' = todo \ {f}
          /\ filename' = f
    /\ passes' = passes + 1
    /\ timestamp_stats' = [timestamp_stats EXCEPT !.errors = @ + 1]
    /\ UNCHANGED <<store, scrape_timestamp, n_rows, pos, article, stats,
                   called_normalize, new_count, presented>>
    /\ UNCHANGED <<inst, writes, input, output, batches, batch, norm_summaries>>
    /\ UNCHANGED fvars

\* return stats; timestamp_stats["files_processed"] += 1 and the four sums
P_FileReturn ==
    /\ pc = "rows"
    /\ pos > n_rows
    /\ timestamp_stats' =
          [files_processed |-> timestamp_stats.files_processed + 1,
           articles_new |-> timestamp_stats.articles_new + stats.articles_new,
           articles_skipped |->
               timestamp_stats.articles_skipped + stats.articles_skipped,
           articles_skipped_image_type |->
               timestamp_stats.articles_skipped_image_type
               + stats.articles_skipped_image_type,
           errors |-> timestamp_stats.errors + stats.errors]
    /\ pc' = "p_for_file"
    /\ UNCHANGED <<inst, writes, input, output, batches, batch, todo, norm_summaries>>
    /\ UNCHANGED FetchState /\ UNCHANGED nvars

\* if timestamp_stats["files_processed"] > 0: write _normalization_summary.json
\* (open and json.dump unguarded); then the overall sums
P_WriteSummary ==
    /\ pc = "p_for_file"
    /\ todo = {}
    /\ IF timestamp_stats.files_processed > 0
       THEN \/ /\ norm_summaries' = Put(norm_summaries, batch, timestamp_stats)
               /\ batch' = batch + 1
               /\ pc' = "p_for_batch" /\ exc' = exc
            \/ /\ norm_summaries' = norm_summaries
               /\ batch' = batch
               /\ pc' = "raised" /\ exc' = "summary_write"
       ELSE /\ norm_summaries' = norm_summaries
            /\ batch' = batch + 1
            /\ pc' = "p_for_batch" /\ exc' = exc
    /\ UNCHANGED <<inst, writes, input, output, batches, todo, timestamp_stats>>
    /\ UNCHANGED <<urls, domains, debug_dir, i, page, content, data, raising,
                   results, summary, browser, debug_dir_exists, debug_files,
                   raw_files, summary_written, delays, unclosed>>
    /\ UNCHANGED nvars

BatchNext ==
    \/ P_MakeDirs \/ P_ForBatch \/ P_Finish \/ P_SkipSummaryFile \/ P_CallFile
    \/ P_FileRaises \/ N_Row \/ P_FileReturn \/ P_WriteSummary

SpecBatch == BatchInit /\ [][BatchNext]_vars

----------------------------------------------------------------------------
(* normalize_news.py: normalize_article, the keyword merge *)

\* Entries of article_data["keywords"] and ["sections"]: null, "", and names
Keywords == { None, <<>>, <<"a">>, <<"b">>, <<"c">> }

KeywordLists(n) == UNION { [1..m -> Keywords] : m \in 0..n }

\* Mutant of MergeLoop: `seen` is never added to
RECURSIVE MergeLoop_NoSeen(_, _, _)
MergeLoop_NoSeen(rest, all_keywords, seen) ==
    IF rest = <<>> THEN all_keywords
    ELSE IF Truthy(Head(rest)) /\ Head(rest) \notin seen
         THEN MergeLoop_NoSeen(Tail(rest), Append(all_keywords, Head(rest)), seen)
         ELSE MergeLoop_NoSeen(Tail(rest), all_keywords, seen)

\* for keyword in keywords_list + sections_list:
\*     if keyword and keyword not in seen: append it, add it to seen
RECURSIVE MergeLoop(_, _, _)
MergeLoop(rest, all_keywords, seen) ==
    IF rest = <<>> THEN all_keywords
    ELSE IF Truthy(Head(rest)) /\ Head(rest) \notin seen
         THEN MergeLoop(Tail(rest), Append(all_keywords, Head(rest)),
                        seen \cup {Head(rest)})
         ELSE MergeLoop(Tail(rest), all_keywords, seen)

\* all_keywords = []; seen = set(); the loop over keywords_list + sections_list
merge_keywords(keywords_list, sections_list) ==
    MergeLoop(keywords_list \o sections_list, <<>>, {})

KeywordsInit ==
    /\ pc = "call"
    /\ input \in KeywordLists(MaxKeywords) \X KeywordLists(MaxSections)
    /\ output = <<>>
    /\ Quiet

K_Merge ==
    /\ pc = "call"
    /\ output' = merge_keywords(input[1], input[2])
    /\ pc' = "merged"
    /\ UNCHANGED input /\ UNCHANGED Rest /\ UNCHANGED nvars

KeywordsNext == K_Merge

SpecKeywords == KeywordsInit /\ [][KeywordsNext]_vars

----------------------------------------------------------------------------
(* normalize_news.py: normalize_article, the publication timestamp *)

\* starttime["iso8601"] / starttime["rfc2822"]: missing, "", a text
\* dateutil cannot parse, or a text that parses to the instant t
TextDates ==
    { [kind |-> "absent", t |-> 0], [kind |-> "empty", t |-> 0],
      [kind |-> "bad", t |-> 0] }
    \cup [kind : {"good"}, t : {10, 20}]

\* starttime["utc"]: missing, 0, milliseconds, or something int() rejects
UtcValues ==
    { [kind |-> "absent", ms |-> 0], [kind |-> "ms", ms |-> 0],
      [kind |-> "ms", ms |-> 5500], [kind |-> "bad", ms |-> 0] }

\* pub_timestamp_gmt: None, or integer seconds
NullTimestamp == [null |-> TRUE, t |-> 0]
Timestamp(n) == [null |-> FALSE, t |-> n]

\* truthiness of a text field
DatePresent(d) == d.kind \in {"bad", "good"}

\* pub_date_original = starttime.get("iso8601") or starttime.get("rfc2822")
pub_date_original(starttime) ==
    IF DatePresent(starttime.iso) THEN starttime.iso ELSE starttime.rfc

\* the except branch: utc_timestamp = starttime.get("utc"); if utc_timestamp:
\* int(utc_timestamp) // 1000, left None on ValueError / TypeError
UtcFallback(utc) ==
    IF utc.kind = "ms" /\ utc.ms # 0 THEN Timestamp(utc.ms \div 1000)
    ELSE NullTimestamp

\* pub_timestamp_gmt = None; if pub_date_original: try parse, except fallback
pub_timestamp_gmt(starttime) ==
    LET d == pub_date_original(starttime)
    IN IF ~DatePresent(d) THEN NullTimestamp
       ELSE IF d.kind = "good" THEN Timestamp(d.t)
       ELSE UtcFallback(starttime.utc)

DateInit ==
    /\ pc = "call"
    /\ input \in [iso : TextDates, rfc : TextDates, utc : UtcValues]
    /\ output = <<>>
    /\ Quiet

D_Resolve ==
    /\ pc = "call"
    /\ output' = pub_timestamp_gmt(input)
    /\ pc' = "resolved"
    /\ UNCHANGED input /\ UNCHANGED Rest /\ UNCHANGED nvars

DateNext == D_Resolve

SpecDate == DateInit /\ [][DateNext]_vars

----------------------------------------------------------------------------
(* normalize_news.py: normalize_article, the author *)

\* one element of article_data["authors"]: a string, a dict (full_name and
\* screen_name default to None, first_name and last_name to ''), or
\* anything else
AuthorItem(type, str, full, first, last, screen) ==
    [type |-> type, str |-> str, full_name |-> full, first_name |-> first,
     last_name |-> last, screen_name |-> screen]

AuthorItems ==
    { AuthorItem("str", <<"A">>, None, <<>>, <<>>, None),
      AuthorItem("str", <<>>, None, <<>>, <<>>, None),
      AuthorItem("dict", <<>>, None, <<>>, <<>>, None),
      AuthorItem("dict", <<>>, <<"F">>, <<"J">>, <<>>, None),
      AuthorItem("dict", <<>>, None, <<"J">>, <<"D">>, None),
      AuthorItem("dict", <<>>, None, <<>>, <<"D">>, <<"s">>),
      AuthorItem("dict", <<>>, None, <<>>, <<>>, <<"s">>),
      AuthorItem("other", <<>>, None, <<>>, <<>>, None) }

AuthorLists(n) == UNION { [1..m -> AuthorItems] : m \in 0..n }

\* article_data.get("byline", ""): "", null, or a text
Bylines == { <<>>, None, <<"B", "y">> }

\* str.strip() of blanks
RECURSIVE Strip(_)
Strip(s) ==
    IF s = <<>> THEN s
    ELSE IF Head(s) = " " THEN Strip(Tail(s))
    ELSE IF s[Len(s)] = " " THEN Strip(SubSeq(s, 1, Len(s) - 1))
    ELSE s

\* full_name or f"{first_name} {last_name}".strip() or screen_name
DictName(item) ==
    LET both == Strip(item.first_name \o <<" ">> \o item.last_name)
    IN IF Truthy(item.full_name) THEN item.full_name
       ELSE IF both # <<>> THEN both
       ELSE item.screen_name

\* the loop over authors_list: strings are appended as they are, dict names
\* only when truthy, other items never
RECURSIVE author_names(_)
author_names(authors_list) ==
    IF authors_list = <<>> THEN <<>>
    ELSE LET item == Head(authors_list)
             rest == author_names(Tail(authors_list))
         IN IF item.type = "str" THEN <<item.str>> \o rest
            ELSE IF item.type = "dict" /\ Truthy(DictName(item))
                 THEN <<DictName(item)>> \o rest
            ELSE rest

\* ", ".join(names)
RECURSIVE Join(_)
Join(names) ==
    IF names = <<>> THEN <<>>
    ELSE IF Len(names) = 1 THEN names[1]
    ELSE names[1] \o <<",", " ">> \o Join(Tail(names))

\* if authors_list: ... elif byline: ... else: None
author(authors_list, byline) ==
    IF authors_list # <<>>
    THEN IF author_names(authors_list) # <<>>
         THEN Join(author_names(authors_list))
         ELSE None
    ELSE IF Truthy(byline) THEN byline
    ELSE None

AuthorInit ==
    /\ pc = "call"
    /\ input \in AuthorLists(MaxAuthors) \X Bylines
    /\ output = <<>>
    /\ Quiet

A_Resolve ==
    /\ pc = "call"
    /\ output' = author(input[1], input[2])
    /\ pc' = "resolved"
    /\ UNCHANGED input /\ UNCHANGED Rest /\ UNCHANGED nvars

AuthorNext == A_Resolve

SpecAuthor == AuthorInit /\ [][AuthorNext]_vars

----------------------------------------------------------------------------
(* normalize_news.py: normalize_townnews_file run by concurrent instances *)

\* One run of the script, or two at the same time over the same output_dir
InstanceIds == {1, 2}

\* the locals of an instance that is not inside normalize_townnews_file
IdleInstance ==
    [pc |-> "idle", filename |-> <<>>, scrape_timestamp |-> 0, n_rows |-> 0,
     pos |-> 0, article |-> NotADict, stats |-> ZeroStats, allotted |-> 0]

\* rows of the raw files the instances have opened so far
RECURSIVE Allotted(_, _)
Allotted(locals, n) ==
    IF n = 0 THEN 0 ELSE locals[n].allotted + Allotted(locals, n - 1)

\* Mutant of ReachesWrite: os.path.exists is not consulted
ReachesWrite_Unchecked(a, st, domain) ==
    /\ a.kind = "dict" /\ a.type # "image"
    /\ get_url_hash(a.url) # None
    /\ ~NormalizeRaises(a)

\* the iteration gets past the image, URL and os.path.exists checks and
\* normalize_article returns: open(output_filepath, 'w') is next
ReachesWrite(a, st, domain) ==
    CallsNormalize(a, st, domain) /\ ~NormalizeRaises(a)

\* the branch taken from open(output_filepath, 'w') on
WriteBranch(w) ==
    IF w = "open_fails" THEN "exception"
    ELSE IF w = "dump_fails" THEN "exception_partial"
    ELSE "new"

\* what an instance step leaves alone: the fetchers, the single-instance
\* locals and the other runs' variables
InstanceFrame ==
    <<filename, scrape_timestamp, n_rows, pos, article, stats, passes,
      called_normalize, new_count, presented, input, output, batches, batch,
      todo, timestamp_stats, norm_summaries>>

InstancesInit ==
    /\ FetchIdle
    /\ NormIdle
    /\ input = <<>> /\ output = <<>> /\ batches = <<>> /\ batch = 0
    /\ todo = {} /\ timestamp_stats = ZeroBatchStats /\ norm_summaries = <<>>
    /\ inst \in { [p \in 1..n |-> IdleInstance] : n \in InstanceIds }
    /\ writes = <<>>

\* instance p enters normalize_townnews_file: json.load, scrape timestamp,
\* domain_dir, stats, rows; the files opened hold MaxInstanceRows rows in all
I_Open(p) ==
    /\ inst[p].pc = "idle"
    /\ \E f \in RawFileNames, ts \in Timestamps,
          n \in 0..(MaxInstanceRows - Allotted(inst, Len(inst))) :
          inst' = [inst EXCEPT ![p] =
                      [pc |-> "rows", filename |-> f, scrape_timestamp |-> ts,
                       n_rows |-> n, pos |-> 1, article |-> NotADict,
                       stats |-> ZeroStats, allotted |-> inst[p].allotted + n]]
    /\ UNCHANGED <<store, writes>>
    /\ UNCHANGED fvars /\ UNCHANGED InstanceFrame

\* instance p runs one iteration up to os.path.exists and normalize_article:
\* the row is counted and left, or the write is next
I_Check(p) ==
    /\ inst[p].pc = "rows"
    /\ inst[p].pos <= inst[p].n_rows
    /\ \E a \in RawRecords :
          LET domain == FileDomain(inst[p].filename)
          IN IF ReachesWrite(a, store, domain)
             THEN inst' = [inst EXCEPT ![p].article = a, ![p].pc = "write"]
             ELSE inst' = [inst EXCEPT
                              ![p].article = a,
                              ![p].stats = Count(@, RowOutcome(a, store, domain, "ok")),
                              ![p].pos = @ + 1]
    /\ UNCHANGED <<store, writes>>
    /\ UNCHANGED fvars /\ UNCHANGED InstanceFrame

\* instance p runs with open(output_filepath, 'w') ...: json.dump(...);
\* stats["articles_new"] += 1, or the except branch
I_Write(p) ==
    /\ inst[p].pc = "write"
    /\ \E w \in WriteOutcomes :
          LET domain == FileDomain(inst[p].filename)
              a == inst[p].article
              path == OutputPath(domain, get_url_hash(a.url))
          IN /\ store' = StoreAfter(store, path, WriteBranch(w),
                            normalize_article(a, domain, inst[p].scrape_timestamp))
             /\ writes' = IF w = "open_fails" THEN writes
                          ELSE Put(writes, path,
                                   IF path \in DOMAIN writes
                                   THEN writes[path] + 1 ELSE 1)
             /\ inst' = [inst EXCEPT
                            ![p].stats = Count(@, WriteBranch(w)),
                            ![p].pos = @ + 1,
                            ![p].pc = "rows"]
    /\ UNCHANGED fvars /\ UNCHANGED InstanceFrame

\* instance p: return stats (the locals of the call are gone)
I_Return(p) ==
    /\ inst[p].pc = "rows"
    /\ inst[p].pos > inst[p].n_rows
    /\ inst' = [inst EXCEPT
                   ![p] = [IdleInstance EXCEPT !.allotted = inst[p].allotted]]
    /\ UNCHANGED <<store, writes>>
    /\ UNCHANGED fvars /\ UNCHANGED InstanceFrame

InstancesNext ==
    \/ \E p \in DOMAIN inst : I_Open(p)
    \/ \E p \in DOMAIN inst : I_Check(p)
    \/ \E p \in DOMAIN inst : I_Write(p)
    \/ \E p \in DOMAIN inst : I_Return(p)

SpecInstances == InstancesInit /\ [][InstancesNext]_vars

----------------------------------------------------------------------------
(* collect_news.py names the raw file, normalize_news.py reads the name back *)

\* characters of a line of domains.txt
DomainAlphabet == {"a", ".", "_", "-"}

\* the non-empty lines domains.txt can hold
DomainNames(n) == UNION { [1..m -> DomainAlphabet] : m \in 1..n }

RoundTripInit ==
    /\ pc = "collect"
    /\ input \in DomainNames(MaxLen)
    /\ output = <<>>
    /\ Quiet

\* collect_news: filename = domain.replace(".", "_") + ".json"
R_Collect ==
    /\ pc = "collect"
    /\ output' = C_Filename(input)
    /\ pc' = "normalize"
    /\ UNCHANGED input /\ UNCHANGED Rest /\ UNCHANGED nvars

\* normalize_townnews_file: filename = os.path.basename(input_filepath);
\* domain = filename.replace(".json", "").replace("_", ".")
R_Normalize ==
    /\ pc = "normalize"
    /\ output' = FileDomain(output)
    /\ pc' = "recovered"
    /\ UNCHANGED input /\ UNCHANGED Rest /\ UNCHANGED nvars

RoundTripNext == R_Collect \/ R_Normalize

SpecRoundTrip == RoundTripInit /\ [][RoundTripNext]_vars

----------------------------------------------------------------------------
(* Properties *)

\* The run has ended, by return or by an exception leaving it
Terminated == pc \in {"done", "raised"}

\* C1: once the session is acquired, a run over N targets ends with exactly N
\* outcomes, the j-th outcome for the j-th target, every one a success or an
\* error outcome: no failure on a target keeps the later targets from being
\* fetched.
C1_OneOutcomePerTarget ==
    (Terminated /\ browser # "None") =>
        /\ Len(results) = Len(urls)
        /\ \A j \in 1..Len(results) :
              /\ results[j].url = urls[j]
              /\ results[j].status \in {"success", "error"}

\* C2: a run over N >= 1 targets that returns has awaited exactly N-1
\* inter-request delays: none after the last target.
C2_DelaysBetweenTargets ==
    (pc = "done" /\ browser # "None" /\ Len(domains) >= 1) =>
        delays = Len(domains) - 1

\* C3: a failing debug write never propagates: no exception raised by the
\* debug write is unwinding or has left the run, and once the except block of
\* target i is over, target i has its outcome recorded.
C3_DebugWriteFailureContained ==
    /\ ~raising
    /\ exc \notin DebugErrors
    /\ pc \in {"close", "delay", "next"} =>
          Len(results) = i /\ results[i].url = urls[i]

\* C4: once the browser session is acquired, every way the run ends has
\* executed the browser stop.
C4_ReleaseOnEveryExit ==
    (Terminated /\ browser # "None") => browser = "stopped"

\* The article identity a row presents under the file being normalised
RowPath(a) == OutputPath(FileDomain(filename), get_url_hash(a.url))

\* The step is one iteration of the loop over rows
IsRowStep == pc = "rows" /\ pos' = pos + 1

\* C5 (as claimed): of the presentations of one article identity the first is
\* counted as new and stores the record, every later one is counted as
\* skipped and writes nothing.
C5_FirstNewLaterSkipped ==
    [][(IsRowStep /\ Presents(article')) =>
          IF RowPath(article') \notin presented
          THEN /\ stats' = [stats EXCEPT !.articles_new = @ + 1]
               /\ RowPath(article') \in DOMAIN store'
          ELSE /\ stats' = [stats EXCEPT !.articles_skipped = @ + 1]
               /\ store' = store]_vars

\* at most one presentation of an identity is counted new, and it stored it
C5_NewOnce ==
    \A k \in DOMAIN new_count :
        new_count[k] <= 1 /\ k \in DOMAIN store /\ store[k].complete

\* a presentation of a stored identity is skipped and writes nothing; a
\* presentation of an identity not stored is counted new iff it stores it
C5_SkipStep ==
    (IsRowStep /\ Presents(article')) =>
        IF RowPath(article') \in DOMAIN store
        THEN /\ stats' = [stats EXCEPT !.articles_skipped = @ + 1]
             /\ store' = store
        ELSE (stats'.articles_new = stats.articles_new + 1)
               <=> /\ RowPath(article') \in DOMAIN store'
                   /\ store'[RowPath(article')].complete

\* C5 (amended): per article identity at most one presentation is counted as
\* new, the one that stored its record; every presentation of an identity
\* that is already stored is counted as skipped and writes nothing; a
\* presentation of an identity not yet stored is counted as new exactly when
\* it stores the complete record (otherwise it is an error).
C5_IdempotentOnceStored == []C5_NewOnce /\ [][C5_SkipStep]_vars

\* C5 witness: an identity counted new before is presented again and skipped
C5_Witness ==
    /\ pc = "rows" /\ pos = 2 /\ passes = 2
    /\ Presents(article)
    /\ RowPath(article) \in DOMAIN new_count
    /\ stats.articles_skipped = 1

\* C6: no two stored normalized records have the same url.
C6_OneRecordPerUrl ==
    \A k1 \in DOMAIN store, k2 \in DOMAIN store :
        (store[k1].complete /\ store[k2].complete
            /\ store[k1].url = store[k2].url) => k1 = k2

\* C7: a stored article is never modified or removed by a later step,
\* whatever the scrape timestamp of the pass.
C7_StoredNeverModified ==
    [][\A k \in DOMAIN store : k \in DOMAIN store' /\ store'[k] = store[k]]_vars

\* C7 witness: a pass with another timestamp has just visited a stored record
C7_Witness ==
    /\ pc = "rows" /\ pos = 2
    /\ Presents(article)
    /\ RowPath(article) \in DOMAIN store
    /\ store[RowPath(article)].complete
    /\ store[RowPath(article)].first_seen_timestamp_gmt # scrape_timestamp
    /\ stats.articles_skipped = 1

\* C8: an iteration over a row of type "image" does not call
\* normalize_article, writes nothing, and increments the image counter only.
C8_ImageAlwaysSkipped ==
    [][(IsRowStep /\ article'.kind = "dict" /\ article'.type = "image") =>
          /\ ~called_normalize'
          /\ store' = store
          /\ stats' = [stats EXCEPT !.articles_skipped_image_type = @ + 1]]_vars

\* C8 witness: an image row was visited whose URL is that of a stored record
C8_Witness ==
    /\ pc = "rows" /\ pos = 2
    /\ article.kind = "dict" /\ article.type = "image"
    /\ get_url_hash(article.url) # None
    /\ RowPath(article) \in DOMAIN store
    /\ stats.articles_skipped_image_type = 1

Total(st) ==
    st.articles_new + st.articles_skipped + st.articles_skipped_image_type
        + st.errors

\* C9: every visited row is counted in exactly one counter: during the pass
\* the four counters sum to the number of rows visited, and when the pass
\* has returned they sum to the number of rows.
C9_EveryRowCounted ==
    /\ pc = "rows" => (Total(stats) = pos - 1 /\ pos <= n_rows + 1)
    /\ pc = "idle" => Total(stats) = n_rows

\* C9 witness: a pass returned in which a row failed and another was stored
C9_Witness ==
    /\ pc = "idle" /\ n_rows >= 2
    /\ stats.errors >= 1 /\ stats.articles_new >= 1

\* C10: a fetch run that has acquired its session ends with the collection
\* summary written, one entry per target; the only other way it may end is
\* the failure of the summary write itself.
C10_RunEmitsSummary ==
    (Terminated /\ browser # "None") =>
        \/ summary_written /\ Len(summary) = Len(domains)
        \/ exc = "summary_write"

\* C11: every success outcome carries a mapping-typed document: page text
\* that parses as a non-object JSON value never gives a success outcome.
C11_SuccessIsMapping ==
    \A j \in 1..Len(results) :
        results[j].status = "success" => results[j].data = "dict"

\* The text from the first "{" to the last "}" of c (empty when there is no
\* such pair in that order)
BraceSpan(c) ==
    LET opens == {k \in 1..Len(c) : c[k] = "{"}
        closes == {k \in 1..Len(c) : c[k] = "}"}
    IN IF opens = {} \/ closes = {} THEN <<>>
       ELSE SubSeq(c, CHOOSE k \in opens : \A j \in opens : k <= j,
                      CHOOSE k \in closes : \A j \in closes : k >= j)

FirstIndex(s, x) ==
    CHOOSE k \in 1..Len(s) : s[k] = x /\ \A j \in 1..(k-1) : s[j] # x

\* C13: the keyword merge returns the distinct non-empty entries of keywords
\* followed by sections, in order of first occurrence: no entry twice, no
\* falsy entry, every truthy input entry and nothing else, first appearances
\* in their input order.
C13_MergeFirstOccurrenceOrder ==
    pc = "merged" =>
        LET all == input[1] \o input[2]
        IN /\ \A p, q \in 1..Len(output) : p # q => output[p] # output[q]
           /\ \A p \in 1..Len(output) : Truthy(output[p])
           /\ \A k \in 1..Len(all) :
                 Truthy(all[k]) => \E p \in 1..Len(output) : output[p] = all[k]
           /\ \A p \in 1..Len(output) : \E k \in 1..Len(all) : all[k] = output[p]
           /\ \A p, q \in 1..Len(output) :
                 p < q => FirstIndex(all, output[p]) < FirstIndex(all, output[q])

\* C13 witness: merge(["b","a","b"], ["a","c"]) = ["b","a","c"]
C13_Witness ==
    /\ pc = "merged"
    /\ input = << << <<"b">>, <<"a">>, <<"b">> >>, << <<"a">>, <<"c">> >> >>
    /\ output = << <<"b">>, <<"a">>, <<"c">> >>

\* C14: a file at an article identity holds the complete canonical record:
\* no write, failed or not, leaves a partial file behind.
C14_WholeFileOrNothing ==
    \A k \in DOMAIN store : store[k].complete

\* C15: the publication timestamp is the parse of the first textual field
\* (ISO-8601, then RFC-2822) that parses, else the millisecond epoch divided
\* by 1000 if that field is present, and null only when no textual field
\* parses and the epoch field is absent.
C15_DateResolutionOrder ==
    (pc = "resolved" /\ input.utc.kind # "bad") =>
        output = IF input.iso.kind = "good" THEN Timestamp(input.iso.t)
                 ELSE IF input.rfc.kind = "good" THEN Timestamp(input.rfc.t)
                 ELSE IF input.utc.kind = "ms"
                      THEN Timestamp(input.utc.ms \div 1000)
                 ELSE NullTimestamp

\* the name an author entry yields, if any
YieldsName(item) ==
    \/ item.type = "str" /\ item.str # <<>>
    \/ item.type = "dict" /\ Truthy(DictName(item))

\* C16: when no entry of the authors list yields a name and the byline is
\* a non-empty string, author is the byline; author is null only when
\* neither source yields a name.
C16_BylineFallback ==
    pc = "resolved" =>
        LET named == \E k \in DOMAIN input[1] : YieldsName(input[1][k])
        IN /\ (~named /\ Truthy(input[2])) => output = input[2]
           /\ output = None => (~named /\ ~Truthy(input[2]))

\* the outcomes recorded so far, by either orchestrator
Recorded == Len(results) + Len(summary)

\* C17: targets are processed strictly one at a time: at most one context
\* awaits its close; when the fetch of target i begins no context is open
\* and the outcomes of the i-1 targets before it are recorded; when the loop
\* is left, by return or by exception, no context is open.
C17_OneTargetAtATime ==
    /\ unclosed <= 1
    /\ pc = "get" => (unclosed = 0 /\ Recorded = i - 1)
    /\ (pc \in {"return", "exit", "stop", "write_summary"} \/ Terminated)
          => unclosed = 0

\* the second target is about to be fetched after the first one failed with
\* its context open
C17_Witness ==
    /\ pc = "get" /\ i = 2 /\ unclosed = 0
    /\ Len(results) = 1 /\ results[1].status = "error"
    /\ results[1].error \in {"settle", "read", "JSONDecodeError", "ValueError"}

\* C18: a debug artifact is written for a target only when the extraction of
\* the page text read in this iteration failed: every step that writes a
\* debug file is the handling of an extraction failure.
C18_DebugOnlyOnExtractionFailure ==
    [][debug_files' # debug_files => IsError(exc)]_vars

\* C19: when a collection run has ended and written its summary, the raw
\* file of a target exists if and only if a summary entry naming that file
\* has status success.
C19_RawFileIffSuccess ==
    (pc = "done" /\ summary_written) =>
        \A j \in 1..Len(domains) :
            C_Filename(domains[j]) \in DOMAIN raw_files
            <=> \E k \in 1..Len(summary) :
                   /\ summary[k].status = "success"
                   /\ summary[k].file_path = C_Filename(domains[j])

\* C20: when the normalization pass has ended, every batch directory that
\* holds at least one raw document file has its normalization summary,
\* whether its files were processed or failed.
C20_SummaryPerBatch ==
    pc = "done" =>
        \A b \in 1..Len(batches) :
            (\E f \in batches[b] : ~IsSummaryFile(f))
            => b \in DOMAIN norm_summaries

\* C21: with a single normalization instance no article identity is written
\* more than once, over any sequence of passes; the guarantee is lost with
\* two instances, which can both find the file absent and both write it.
C21_SingleInstanceWritesOnce ==
    Len(inst) = 1 => \A k \in DOMAIN writes : writes[k] <= 1

\* C21 witness: two instances have both written the same identity
C21_Witness ==
    /\ Len(inst) = 2
    /\ \E k \in DOMAIN writes : writes[k] = 2 /\ store[k].complete

\* C22: the domain recovered from the raw file name the collector wrote for
\* a target domain is that target domain.
C22_DomainRoundTrip ==
    pc = "recovered" => output = input

====
